---- MODULE Spec2Model ----
(***************************************************************************)
(* State-machine model of the wtperf benchmark orchestrator                *)
(* (bench/wtperf/wtperf_run_py/wtperf_run.py): main() and the functions    *)
(* it calls.  One execution of main() is a sequential process whose        *)
(* position is pc; the child benchmark process, the working directories    *)
(* on disk and the written report are the environment it acts on.          *)
(*                                                                         *)
(* Python values: an optional value is a set, empty for None and the       *)
(* singleton of v for v; strings are TLA+ strings; lists are sequences.    *)
(***************************************************************************)
EXTENDS Integers, Sequences, FiniteSets, TLC

\* ------------------------------------------------------------------ bounds
MaxRunMax == 2      \* largest --runmax value drawn
MaxBatch  == 2      \* largest number of entries in the batch file
MaxOps    == 3      \* longest direct -ops list drawn
MaxIndex  == 11     \* largest batch / run index given to the path builder
MaxArgs   == 2      \* longest argument list given to the command-line builder
MaxHooks  == 2      \* longest hook list of a suite

\* ----------------------------------------------------------- python values
None == {}
Some(v) == {v}
Get(o) == CHOOSE v \in o : TRUE

\* Truthiness of an optional string (None and "" are falsy).
TruthyStr(o) == o # None /\ Get(o) # ""
\* Truthiness of an optional list (None and [] are falsy).
TruthyList(o) == o # None /\ Len(Get(o)) > 0

SeqsUpTo(S, n) == UNION {[1..k -> S] : k \in 0..n}

\* ---------------------------------------------------------------- registry
\* PerfStatCollection.all_stats(): the fixed registry of statistics, in
\* registry order; all_stat_names are their short labels.
all_stat_names == <<"read", "load", "insert">>

\* Names a caller may request: the labels, a case variant of one, and a
\* name that is no label at all.
OpNames == {"read", "load", "insert", "Read", "bogus"}

\* Code points of the characters of each name (Python compares str by them).
Codes ==
  [n \in OpNames |->
     CASE n = "read"   -> <<114, 101, 97, 100>>
       [] n = "load"   -> <<108, 111, 97, 100>>
       [] n = "insert" -> <<105, 110, 115, 101, 114, 116>>
       [] n = "Read"   -> <<82, 101, 97, 100>>
       [] n = "bogus"  -> <<98, 111, 103, 117, 115>>]

RECURSIVE LexLess(_, _)
LexLess(a, b) ==
  IF Len(b) = 0 THEN FALSE
  ELSE IF Len(a) = 0 THEN TRUE
  ELSE IF Head(a) # Head(b) THEN Head(a) < Head(b)
  ELSE LexLess(Tail(a), Tail(b))

\* a < b on Python strings.
StrLess(a, b) == LexLess(Codes[a], Codes[b])

RECURSIVE Insert(_, _)
Insert(x, s) ==
  IF Len(s) = 0 THEN <<x>>
  ELSE IF StrLess(x, Head(s)) THEN <<x>> \o s
  ELSE <<Head(s)>> \o Insert(x, Tail(s))

\* Mutant: the labels are listed in registry order.
sorted_unsorted(s) == s

\* sorted(list of str)
RECURSIVE sorted(_)
sorted(s) == IF Len(s) = 0 THEN <<>> ELSE Insert(Head(s), sorted(Tail(s)))

\* x in list
In(x, s) == \E i \in 1..Len(s) : s[i] = x

\* -------------------------------------------------------- RunContext paths
\* Mutant: the separator between the two indexes is missing.
create_test_home_path_nosep(home, test_run, index) ==
  home \o "_" \o ToString(index) \o ToString(test_run)

\* create_test_home_path: "{}_{}_{}".format(home, index, test_run)
create_test_home_path(home, test_run, index) ==
  home \o "_" \o ToString(index) \o "_" \o ToString(test_run)

\* Mutant: the -h pair is appended before the extra arguments.
construct_wtperf_command_line_home_first(wtperf, env, test, home, arguments) ==
  (IF env # None THEN <<Get(env)>> ELSE <<>>)
    \o <<wtperf>>
    \o (IF test # None THEN <<"-O", Get(test)>> ELSE <<>>)
    \o (IF home # None THEN <<"-h", Get(home)>> ELSE <<>>)
    \o (IF arguments # None THEN Get(arguments) ELSE <<>>)

\* construct_wtperf_command_line(wtperf, env, test, home, arguments); every
\* parameter but wtperf is optional (None or Some).
construct_wtperf_command_line(wtperf, env, test, home, arguments) ==
  (IF env # None THEN <<Get(env)>> ELSE <<>>)
    \o <<wtperf>>
    \o (IF test # None THEN <<"-O", Get(test)>> ELSE <<>>)
    \o (IF arguments # None THEN Get(arguments) ELSE <<>>)
    \o (IF home # None THEN <<"-h", Get(home)>> ELSE <<>>)

\* ------------------------------------------------------------- environment
HomeBase == "h"
Files == {"batch.json"}                \* os.path.isfile(p) == p \in Files
isfile(p) == p \in Files

ArgLists == {<<>>, <<"-C">>}           \* argument lists of batch entries
EntryOps == {<<>>, <<"read">>, <<"load">>, <<"bogus">>}
BatchEntries == [arguments : ArgLists, operations : EntryOps]
BatchLists == SeqsUpTo(BatchEntries, MaxBatch)
OpLists == SeqsUpTo(OpNames, MaxOps)

Outputs == {"disk full", "killed"}     \* combined output of a failed child

Dirs ==
  {create_test_home_path(HomeBase, r, i) :
      r \in 0..(MaxRunMax - 1), i \in 0..(MaxBatch - 1)}

Absent == None                         \* a directory holding no artifact
\* The measurement the n-th child process of the model's history leaves in
\* its working directory.  The orchestrator never inspects a measurement, it
\* only moves it, so giving every launch its own value loses no behaviour.
Measurement(n) == 2 * n + 3
PriorMeasurement == Measurement(0)

\* Artifacts left by earlier executions when --reuse is given.
PriorDisks ==
  {[d \in Dirs |-> Some(PriorMeasurement)], [d \in Dirs |-> Absent]}
    \cup {[d \in Dirs |-> IF d = m THEN Absent ELSE Some(PriorMeasurement)] : m \in Dirs}

ArgsSpace ==
  [wtperf     : {None, Some("wtperf")},
   test       : {None, Some("t.wtperf")},
   home       : {None, Some(HomeBase)},
   batch_file : {None, Some(""), Some("missing.json"), Some("batch.json")},
   arguments  : {None, Some(""), Some("<json>")},
   operations : {None, Some(""), Some("<json>")},
   outfile    : {None, Some("out.json")},
   verbose    : BOOLEAN,
   reuse      : BOOLEAN,
   runmax     : 0..MaxRunMax]

VARIABLES
  args,                 \* argparse.Namespace of this invocation
  pc,                   \* position of main()
  exec_no,              \* 1: first execution, 2: the re-execution with --reuse
  arguments,            \* parse_json_args: json.loads(args.arguments) or None
  operations,           \* parse_json_args: json.loads(args.operations) or None
  batch_file_contents,  \* parse_json_args: json.load(batch file) or None
  batch_read,           \* the batch file has been opened and read
  validated,            \* validate_operations has returned
  pos,                  \* run_perf_tests: entries of the for loop already done
  index,                \* run_perf_tests: index passed down
  test_run,             \* loop variable of run_test_wrapper / process_results
  perf_stats,           \* the current PerfStatCollection
  reported_stats,       \* run_perf_tests: reported_stats
  running,              \* working directory of the child process running now
  spawned,              \* child processes launched since the model's start
  launched,             \* launches of this execution, in order
  exits,                \* exit codes of this execution's children, in order
  collected,            \* find_stats calls of this execution, in order
  disk,                 \* artifact in each working directory
  error,                \* the fatal error this execution ended with
  report,               \* the report this execution produced
  first,                \* what the first execution did, kept for the second
  call,                 \* RunContext builder called on its own: the inputs
  result,               \* ... and what it returned
  suite_in,             \* antithesis_suite: the suite as loaded from yaml
  suite,                \* antithesis_suite: the suite being rewritten
  suite_pc              \* antithesis_suite: position of _generate

vars ==
  <<args, pc, exec_no, arguments, operations, batch_file_contents, batch_read,
    validated, pos, index, test_run, perf_stats, reported_stats, running,
    spawned, launched, exits, collected, disk, error, report, first,
    call, result, suite_in, suite, suite_pc>>

\* The variables main() of wtperf_run.py never touches.
aux == <<call, result, suite_in, suite, suite_pc>>
NoCall == [fn |-> "none"]
NoSuite == [archive |-> None, executor_archive |-> None, executor |-> None]

\* WTPerfConfig(...) built by parse_json_args from args.
config_batch_file == args.batch_file
config_run_max == args.runmax
config_home_dir == Get(args.home)

NoStats == [operations |-> None, values |-> <<>>]

Init ==
  /\ args \in ArgsSpace
  /\ pc = "parse_args"
  /\ exec_no = 1
  /\ arguments = None
  /\ operations = None
  /\ batch_file_contents = None
  /\ batch_read = FALSE
  /\ validated = FALSE
  /\ pos = 0
  /\ index = 0
  /\ test_run = 0
  /\ perf_stats = NoStats
  /\ reported_stats = <<>>
  /\ running = None
  /\ spawned = 0
  /\ launched = <<>>
  /\ exits = <<>>
  /\ collected = <<>>
  /\ disk \in (IF args.reuse THEN PriorDisks ELSE {[d \in Dirs |-> Absent]})
  /\ error = None
  /\ report = None
  /\ first = None
  /\ call = NoCall
  /\ result = None
  /\ suite_in = NoSuite
  /\ suite = NoSuite
  /\ suite_pc = "idle"

\* sys.exit(message) / exit(1): the execution ends with a fatal error.
Fatal(kind, detail) ==
  /\ error' = Some([kind |-> kind, detail |-> detail])
  /\ pc' = "exit"

\* ---------------------------------------------------------------- parse_args
\* Mutant: the mutual exclusion tests "arguments and operations".
parse_args_exit_and(a) ==
  IF a.wtperf = None THEN Some("The path to the wtperf executable is required")
  ELSE IF a.test = None THEN Some("The path to the test file is required")
  ELSE IF a.home = None THEN Some("The path to the \"home\" directory is required")
  ELSE IF TruthyStr(a.batch_file) /\ ~isfile(Get(a.batch_file))
    THEN Some("batch_file not found!")
  ELSE IF TruthyStr(a.batch_file) /\ (TruthyStr(a.arguments) /\ TruthyStr(a.operations))
    THEN Some("A batch file (-bf) should not be defined at the same time as -ops or -args")
  ELSE IF ~a.verbose /\ ~TruthyStr(a.outfile)
    THEN Some("Enable verbosity (or provide a file path) to dump the stats.")
  ELSE None

\* The message parse_args exits with, or None when it returns args.
parse_args_exit(a) ==
  IF a.wtperf = None THEN Some("The path to the wtperf executable is required")
  ELSE IF a.test = None THEN Some("The path to the test file is required")
  ELSE IF a.home = None THEN Some("The path to the \"home\" directory is required")
  ELSE IF TruthyStr(a.batch_file) /\ ~isfile(Get(a.batch_file))
    THEN Some("batch_file not found!")
  ELSE IF TruthyStr(a.batch_file) /\ (TruthyStr(a.arguments) \/ TruthyStr(a.operations))
    THEN Some("A batch file (-bf) should not be defined at the same time as -ops or -args")
  ELSE IF ~a.verbose /\ ~TruthyStr(a.outfile)
    THEN Some("Enable verbosity (or provide a file path) to dump the stats.")
  ELSE None

parse_args ==
  /\ pc = "parse_args"
  /\ IF parse_args_exit(args) # None
       THEN Fatal("config", <<Get(parse_args_exit(args))>>)
       ELSE pc' = "parse_json_args" /\ UNCHANGED error
  /\ UNCHANGED <<args, exec_no, arguments, operations, batch_file_contents,
                 batch_read, validated, pos, index, test_run, perf_stats,
                 reported_stats, running, spawned, launched, exits, collected,
                 disk, report, first>>
  /\ UNCHANGED aux

\* ----------------------------------------------------------- parse_json_args
\* json.loads of the -args / -ops text and json.load of the batch file.  The
\* texts are opaque until parsed: the parsed value is drawn here.  The second
\* execution is given the same command line and the same batch file, so it
\* parses to the same values.
parse_json_args ==
  /\ pc = "parse_json_args"
  /\ IF exec_no = 1
       THEN /\ arguments' \in
                 (IF TruthyStr(args.arguments) THEN {Some(a) : a \in ArgLists} ELSE {None})
            /\ operations' \in
                 (IF TruthyStr(args.operations) THEN {Some(o) : o \in OpLists} ELSE {None})
            /\ batch_file_contents' \in
                 (IF TruthyStr(config_batch_file)
                    THEN {Some(c) : c \in BatchLists} ELSE {None})
       ELSE UNCHANGED <<arguments, operations, batch_file_contents>>
  /\ batch_read' = TruthyStr(config_batch_file)
  /\ pc' = "validate_operations"
  /\ UNCHANGED <<args, exec_no, validated, pos, index, test_run, perf_stats,
                 reported_stats, running, spawned, launched, exits, collected,
                 disk, error, report, first>>
  /\ UNCHANGED aux

\* ------------------------------------------------------- validate_operations
\* Mutant: "all_operations = content[...]" for "+=": only the last entry's
\* operations are kept.
ConcatOperations_last(contents) ==
  IF Len(contents) = 0 THEN <<>> ELSE contents[Len(contents)].operations

\* The loop "for content in batch_file_contents: all_operations += ...".
RECURSIVE ConcatOperations(_)
ConcatOperations(contents) ==
  IF Len(contents) = 0 THEN <<>>
  ELSE Head(contents).operations \o ConcatOperations(Tail(contents))

\* all_operations as built by validate_operations.
all_operations_of(batch_file, contents, ops) ==
  IF TruthyStr(batch_file) THEN ConcatOperations(Get(contents))
  ELSE IF TruthyList(ops) THEN Get(ops)
  ELSE <<>>

\* list(dict.fromkeys(l)): first occurrences, in order.
RECURSIVE fromkeys(_, _)
fromkeys(l, seen) ==
  IF Len(l) = 0 THEN seen
  ELSE fromkeys(Tail(l), IF In(Head(l), seen) THEN seen ELSE Append(seen, Head(l)))

\* Mutant: only adjacent repetitions are removed.
RECURSIVE adjacent_nodups(_)
adjacent_nodups(l) ==
  IF Len(l) <= 1 THEN l
  ELSE IF l[1] = l[2] THEN adjacent_nodups(Tail(l))
  ELSE <<Head(l)>> \o adjacent_nodups(Tail(l))

all_operations_nodups_of(all_operations) == fromkeys(all_operations, <<>>)

\* The membership loop: the opers of all_operations that are no known label.
RECURSIVE unknown_opers(_)
unknown_opers(l) ==
  IF Len(l) = 0 THEN <<>>
  ELSE (IF In(Head(l), all_stat_names) THEN <<>> ELSE <<Head(l)>>)
         \o unknown_opers(Tail(l))

\* Mutant: the membership loop is skipped.
validate_operations_exit_no_membership(batch_file, contents, ops) ==
  LET all_operations == all_operations_of(batch_file, contents, ops)
  IN  IF Len(all_operations_nodups_of(all_operations)) # Len(all_operations)
        THEN Some([kind |-> "duplicates", detail |-> <<all_operations>>])
      ELSE None

\* The error validate_operations exits with, or None when it returns.
validate_operations_exit(batch_file, contents, ops) ==
  LET all_operations == all_operations_of(batch_file, contents, ops)
      all_operations_nodups == all_operations_nodups_of(all_operations)
  IN  IF Len(all_operations_nodups) # Len(all_operations)
        THEN Some([kind |-> "duplicates", detail |-> <<all_operations>>])
      ELSE IF Len(unknown_opers(all_operations)) > 0
        THEN Some([kind |-> "unknown",
                   detail |-> <<Head(unknown_opers(all_operations)),
                                sorted(all_stat_names)>>])
      ELSE None

validate_operations ==
  /\ pc = "validate_operations"
  /\ LET e == validate_operations_exit(config_batch_file, batch_file_contents, operations)
     IN  IF e # None
           THEN error' = e /\ pc' = "exit" /\ UNCHANGED validated
           ELSE validated' = TRUE /\ pc' = "run_perf_tests" /\ UNCHANGED error
  /\ UNCHANGED <<args, exec_no, arguments, operations, batch_file_contents,
                 batch_read, pos, index, test_run, perf_stats, reported_stats,
                 running, spawned, launched, exits, collected, disk, report,
                 first>>
  /\ UNCHANGED aux

\* ------------------------------------------------------------ run_perf_tests
\* PerfStatCollection(operations): the statistics to report and the values
\* folded into them so far.
PerfStatCollection(ops) == [operations |-> ops, values |-> <<>>]

\* perf_stats.to_report: one record per requested statistic (the default set,
\* every registry label, when none is requested), holding the folded values.
to_report(ps) ==
  LET labels == IF TruthyList(ps.operations) THEN Get(ps.operations) ELSE all_stat_names
  IN  [i \in 1..Len(labels) |-> [label |-> labels[i], values |-> ps.values]]

\* batch_file_contents.index(content): position of the first equal element.
list_index(contents, content) ==
  (CHOOSE i \in 1..Len(contents) :
      /\ contents[i] = content
      /\ \A j \in 1..(i - 1) : contents[j] # content) - 1

\* Mutant: the reuse flag is ignored.
runs_tests_always(a) == TRUE

\* Mutant: the tests are never run, the results are only read.
runs_tests_never(a) == FALSE

\* "if not args.reuse": whether the tests are run before the results are read.
runs_tests(a) == ~a.reuse

\* Where an entry starts: run_test_wrapper unless reuse, else process_results.
entry_start(a) == IF runs_tests(a) THEN "run_test_wrapper" ELSE "process_results"

\* run_perf_tests up to its branch on config.batch_file; the else branch
\* builds the single PerfStatCollection.
run_perf_tests ==
  /\ pc = "run_perf_tests"
  /\ reported_stats' = <<>>
  /\ pos' = 0
  /\ test_run' = 0
  /\ index' = 0
  /\ IF TruthyStr(config_batch_file)
       THEN pc' = "batch_loop" /\ UNCHANGED perf_stats
       ELSE perf_stats' = PerfStatCollection(operations) /\ pc' = entry_start(args)
  /\ UNCHANGED <<args, exec_no, arguments, operations, batch_file_contents,
                 batch_read, validated, running, spawned, launched, exits,
                 collected, disk, error, report, first>>
  /\ UNCHANGED aux

\* One iteration head of "for content in batch_file_contents": the index
\* lookup and the body, all of which sits under "if args.verbose:".
batch_loop ==
  /\ pc = "batch_loop"
  /\ LET contents == Get(batch_file_contents)
     IN  IF pos < Len(contents)
           THEN LET content == contents[pos + 1]
                IN  IF args.verbose
                      THEN /\ index' = list_index(contents, content)
                           /\ perf_stats' = PerfStatCollection(Some(content.operations))
                           /\ test_run' = 0
                           /\ pc' = entry_start(args)
                           /\ UNCHANGED pos
                      ELSE /\ pos' = pos + 1
                           /\ UNCHANGED <<index, perf_stats, test_run, pc>>
           ELSE /\ pc' = "report_results"
                /\ UNCHANGED <<index, perf_stats, test_run, pos>>
  /\ UNCHANGED <<args, exec_no, arguments, operations, batch_file_contents,
                 batch_read, validated, reported_stats, running, spawned,
                 launched, exits, collected, disk, error, report, first>>
  /\ UNCHANGED aux

\* The arguments run_test_wrapper is called with.
entry_arguments ==
  IF TruthyStr(config_batch_file)
    THEN Some(Get(batch_file_contents)[pos + 1].arguments)
    ELSE arguments

\* Mutant: the child is started without waiting for it (Popen for run).
run_test_nowait ==
  /\ pc = "run_test_wrapper"
  /\ test_run < config_run_max
  /\ LET test_home == create_test_home_path(config_home_dir, test_run, index)
         command_line ==
           construct_wtperf_command_line(Get(args.wtperf), None, args.test,
                                         Some(test_home), entry_arguments)
     IN  /\ running' = Some(test_home)
         /\ launched' = Append(launched,
                               [home |-> test_home, command_line |-> command_line,
                                pos |-> pos, test_run |-> test_run])
  /\ spawned' = spawned + 1
  /\ test_run' = test_run + 1
  /\ UNCHANGED <<args, pc, exec_no, arguments, operations, batch_file_contents,
                 batch_read, validated, pos, index, perf_stats,
                 reported_stats, exits, collected, disk, error, report, first>>
  /\ UNCHANGED aux

\* run_test_wrapper's loop head and run_test up to subprocess.run: the child
\* process is launched in its working directory.  The executions modelled
\* are those without -e, so config.environment is None.
run_test ==
  /\ pc = "run_test_wrapper"
  /\ test_run < config_run_max
  /\ LET test_home == create_test_home_path(config_home_dir, test_run, index)
         command_line ==
           construct_wtperf_command_line(Get(args.wtperf), None, args.test,
                                         Some(test_home), entry_arguments)
     IN  /\ running' = Some(test_home)
         /\ launched' = Append(launched,
                               [home |-> test_home, command_line |-> command_line,
                                pos |-> pos, test_run |-> test_run])
  /\ spawned' = spawned + 1
  /\ pc' = "subprocess_run"
  /\ UNCHANGED <<args, exec_no, arguments, operations, batch_file_contents,
                 batch_read, validated, pos, index, test_run, perf_stats,
                 reported_stats, exits, collected, disk, error, report, first>>
  /\ UNCHANGED aux

\* Mutant: a failed child is retried instead of ending the program.
child_exit_fail_retry ==
  /\ pc = "subprocess_run"
  /\ \E output \in Outputs :
       exits' = Append(exits, [home |-> Get(running), code |-> 1, output |-> output])
  /\ running' = None
  /\ pc' = "run_test_wrapper"
  /\ UNCHANGED <<args, exec_no, arguments, operations, batch_file_contents,
                 batch_read, validated, pos, index, test_run, perf_stats,
                 reported_stats, spawned, launched, collected, disk, error,
                 report, first>>
  /\ UNCHANGED aux

\* subprocess.run returns: the child exited 0, leaving its artifact.
child_exit_ok ==
  /\ pc = "subprocess_run"
  /\ disk' = [disk EXCEPT ![Get(running)] = Some(Measurement(spawned))]
  /\ exits' = Append(exits, [home |-> Get(running), code |-> 0, output |-> ""])
  /\ running' = None
  /\ test_run' = test_run + 1
  /\ pc' = "run_test_wrapper"
  /\ UNCHANGED <<args, exec_no, arguments, operations, batch_file_contents,
                 batch_read, validated, pos, index, perf_stats, reported_stats,
                 spawned, launched, collected, error, report, first>>
  /\ UNCHANGED aux

\* What run_test does with CalledProcessError: print cpe.output, exit(1).
process_failure(output) == [kind |-> "process", detail |-> <<output>>]

\* Mutant: subprocess.run without check=True; a failed child is not noticed
\* and the next run follows.
child_exit_fail_unchecked ==
  /\ pc = "subprocess_run"
  /\ \E output \in Outputs :
       exits' = Append(exits, [home |-> Get(running), code |-> 1, output |-> output])
  /\ running' = None
  /\ test_run' = test_run + 1
  /\ pc' = "run_test_wrapper"
  /\ UNCHANGED <<args, exec_no, arguments, operations, batch_file_contents,
                 batch_read, validated, pos, index, perf_stats, reported_stats,
                 spawned, launched, collected, disk, error, report, first>>
  /\ UNCHANGED aux

\* subprocess.run raises CalledProcessError: the child exited non-zero.
child_exit_fail ==
  /\ pc = "subprocess_run"
  /\ \E output \in Outputs :
       /\ error' = Some(process_failure(output))
       /\ exits' = Append(exits, [home |-> Get(running), code |-> 1, output |-> output])
  /\ running' = None
  /\ pc' = "exit"
  /\ UNCHANGED <<args, exec_no, arguments, operations, batch_file_contents,
                 batch_read, validated, pos, index, test_run, perf_stats,
                 reported_stats, spawned, launched, collected, disk, report,
                 first>>
  /\ UNCHANGED aux

\* Mutant: the loop is left after its first iteration.
run_test_wrapper_return_early ==
  /\ pc = "run_test_wrapper"
  /\ test_run >= 1
  /\ test_run' = 0
  /\ pc' = "process_results"
  /\ UNCHANGED <<args, exec_no, arguments, operations, batch_file_contents,
                 batch_read, validated, pos, index, perf_stats, reported_stats,
                 running, spawned, launched, exits, collected, disk, error,
                 report, first>>
  /\ UNCHANGED aux

\* run_test_wrapper returns after its last run.
run_test_wrapper_return ==
  /\ pc = "run_test_wrapper"
  /\ test_run >= config_run_max
  /\ test_run' = 0
  /\ pc' = "process_results"
  /\ UNCHANGED <<args, exec_no, arguments, operations, batch_file_contents,
                 batch_read, validated, pos, index, perf_stats, reported_stats,
                 running, spawned, launched, exits, collected, disk, error,
                 report, first>>
  /\ UNCHANGED aux

\* perf_stats.find_stats(test_home) fails when the directory holds no
\* artifact (CollectionError, surfacing the missing path).
find_stats_fails(test_home) == disk[test_home] = Absent
collection_error(test_home) == [kind |-> "collection", detail |-> <<test_home>>]

\* perf_stats.find_stats(test_home) otherwise folds the directory's artifact
\* into the collection, in call order.
find_stats(ps, test_home) == [ps EXCEPT !.values = Append(@, Get(disk[test_home]))]

\* One iteration of process_results: the home path is rebuilt and the
\* collector called on it.
process_results_iter ==
  /\ pc = "process_results"
  /\ test_run < config_run_max
  /\ LET test_home == create_test_home_path(config_home_dir, test_run, index)
     IN  /\ collected' = Append(collected,
                                [home |-> test_home, operations |-> perf_stats.operations,
                                 pos |-> pos, test_run |-> test_run])
         /\ IF find_stats_fails(test_home)
              THEN /\ error' = Some(collection_error(test_home))
                   /\ pc' = "exit"
                   /\ UNCHANGED <<perf_stats, test_run>>
              ELSE /\ perf_stats' = find_stats(perf_stats, test_home)
                   /\ test_run' = test_run + 1
                   /\ UNCHANGED <<error, pc>>
  /\ UNCHANGED <<args, exec_no, arguments, operations, batch_file_contents,
                 batch_read, validated, pos, index, reported_stats, running,
                 spawned, launched, exits, disk, report, first>>
  /\ UNCHANGED aux

\* Mutant: an entry's results are put in front of the earlier ones.
process_results_return_prepend ==
  /\ pc = "process_results"
  /\ test_run >= config_run_max
  /\ IF TruthyStr(config_batch_file)
       THEN /\ reported_stats' = to_report(perf_stats) \o reported_stats
            /\ pos' = pos + 1
            /\ pc' = "batch_loop"
       ELSE /\ reported_stats' = to_report(perf_stats)
            /\ pc' = "report_results"
            /\ UNCHANGED pos
  /\ UNCHANGED <<args, exec_no, arguments, operations, batch_file_contents,
                 batch_read, validated, index, test_run, perf_stats, running,
                 spawned, launched, exits, collected, disk, error, report,
                 first>>
  /\ UNCHANGED aux

\* process_results returns perf_stats.to_report; run_perf_tests appends it
\* (batch) or takes it (single configuration).
process_results_return ==
  /\ pc = "process_results"
  /\ test_run >= config_run_max
  /\ IF TruthyStr(config_batch_file)
       THEN /\ reported_stats' = reported_stats \o to_report(perf_stats)
            /\ pos' = pos + 1
            /\ pc' = "batch_loop"
       ELSE /\ reported_stats' = to_report(perf_stats)
            /\ pc' = "report_results"
            /\ UNCHANGED pos
  /\ UNCHANGED <<args, exec_no, arguments, operations, batch_file_contents,
                 batch_read, validated, index, test_run, perf_stats, running,
                 spawned, launched, exits, collected, disk, error, report,
                 first>>
  /\ UNCHANGED aux

\* report_results: the report is printed (verbose) and/or written (outfile).
report_results ==
  /\ pc = "report_results"
  /\ report' = Some([metrics |-> reported_stats,
                     printed |-> args.verbose,
                     outfile |-> args.outfile])
  /\ pc' = "done"
  /\ UNCHANGED <<args, exec_no, arguments, operations, batch_file_contents,
                 batch_read, validated, pos, index, test_run, perf_stats,
                 reported_stats, running, spawned, launched, exits, collected,
                 disk, error, first>>
  /\ UNCHANGED aux

\* The caller runs the program again on the same command line plus --reuse,
\* against the artifacts the first execution left.
Rerun ==
  /\ pc = "done"
  /\ exec_no = 1
  /\ ~args.reuse
  /\ first' = Some([launched |-> launched, collected |-> collected,
                    report |-> report])
  /\ args' = [args EXCEPT !.reuse = TRUE]
  /\ exec_no' = 2
  /\ pc' = "parse_args"
  /\ batch_read' = FALSE
  /\ validated' = FALSE
  /\ pos' = 0
  /\ index' = 0
  /\ test_run' = 0
  /\ perf_stats' = NoStats
  /\ reported_stats' = <<>>
  /\ launched' = <<>>
  /\ exits' = <<>>
  /\ collected' = <<>>
  /\ report' = None
  /\ UNCHANGED <<arguments, operations, batch_file_contents, running, spawned,
                 disk, error>>
  /\ UNCHANGED aux

Next ==
  \/ parse_args
  \/ parse_json_args
  \/ validate_operations
  \/ run_perf_tests
  \/ batch_loop
  \/ run_test
  \/ child_exit_ok
  \/ child_exit_fail
  \/ run_test_wrapper_return
  \/ process_results_iter
  \/ process_results_return
  \/ report_results
  \/ Rerun

Spec == Init /\ [][Next]_vars

\* ===================================================================== claims
\* Helpers of the claims, stated on the inputs alone.
BatchMode == TruthyStr(args.batch_file)
Labels == {"read", "load", "insert"}
HasRepeat(l) == \E i, j \in 1..Len(l) : i < j /\ l[i] = l[j]
HasUnknown(l) == \E i \in 1..Len(l) : l[i] \notin Labels
FirstUnknown(l) ==
  l[CHOOSE i \in 1..Len(l) : l[i] \notin Labels /\ \A j \in 1..(i - 1) : l[j] \in Labels]
RECURSIVE Flatten(_)
Flatten(ll) == IF Len(ll) = 0 THEN <<>> ELSE Head(ll) \o Flatten(Tail(ll))
\* The requested operations, flattened, once the inputs are parsed.
Requested ==
  IF BatchMode
    THEN Flatten([i \in 1..Len(Get(batch_file_contents)) |->
                    Get(batch_file_contents)[i].operations])
    ELSE IF operations = None THEN <<>> ELSE Get(operations)
Parsed == pc \notin {"parse_args", "parse_json_args"} /\ parse_args_exit(args) = None
PastValidation == Parsed /\ pc # "validate_operations"
ErrorKind == IF error = None THEN "none" ELSE Get(error).kind
RejectedByValidation == ErrorKind \in {"duplicates", "unknown"}

\* C1: validation is a fail-fast gate.  A child process is launched, a
\* directory collected or a report written only after validate_operations has
\* returned, and then the requested operations hold no repeated and no unknown
\* name; whenever validation rejects, nothing was launched, nothing collected
\* and no report written.
C1_FailFastGate ==
  /\ (Len(launched) > 0 \/ Len(collected) > 0 \/ report # None \/ running # None)
       => (validated /\ ~HasRepeat(Requested) /\ ~HasUnknown(Requested))
  /\ (Parsed /\ (HasRepeat(Requested) \/ HasUnknown(Requested)) /\ pc # "validate_operations")
       => (RejectedByValidation /\ pc = "exit")
  /\ RejectedByValidation
       => (Len(launched) = 0 /\ Len(collected) = 0 /\ report = None
           /\ running = None /\ ~validated /\ pc = "exit")

\* C1 witnesses: a batch is rejected by validation; (and the gate is passed,
\* see C2's and C9's witnesses, where children run after validation).
C1_Witness ==
  /\ RejectedByValidation
  /\ BatchMode
  /\ Len(Get(batch_file_contents)) = 2
  /\ ~args.reuse
  /\ args.runmax > 0

\* C2: a child exiting non-zero is fatal.  The failed child is the last one
\* launched, the execution has ended, no report is written, nothing is
\* collected after it, and the error carries that child's captured output.
C2_ProcessFailureFatal ==
  \A i \in 1..Len(exits) :
    exits[i].code # 0 =>
      /\ i = Len(exits)
      /\ Len(launched) = Len(exits)
      /\ running = None
      /\ pc = "exit"
      /\ report = None
      /\ error = Some([kind |-> "process", detail |-> <<exits[i].output>>])
      /\ \A k \in 1..Len(collected) : collected[k].pos < launched[i].pos

C2_Witness ==
  /\ Len(exits) = 2
  /\ exits[2].code # 0
  /\ exits[2].output = "disk full"
  /\ BatchMode
  /\ Len(Get(batch_file_contents)) = 2
  /\ args.runmax = 2

\* The working directory the spec gives batch position i, run r.
ExpectedHome(i, r) == create_test_home_path(HomeBase, r, i)

\* C3 (as claimed): in batch mode with reuse unset and every child exiting 0,
\* when the execution is done every (batch position i, run r) has had exactly
\* one launch in {home}_i_r, that directory was collected into entry i's
\* collection, and the report holds every entry's statistics; with or without
\* the verbose flag.
C3_BatchRunsEveryEntry ==
  (exec_no = 1 /\ pc = "done" /\ BatchMode /\ ~args.reuse) =>
    LET contents == Get(batch_file_contents)
    IN  /\ \A i \in 0..(Len(contents) - 1) : \A r \in 0..(args.runmax - 1) :
             /\ Cardinality({k \in 1..Len(launched) :
                               launched[k].home = ExpectedHome(i, r)}) = 1
             /\ \E k \in 1..Len(collected) :
                  /\ collected[k].home = ExpectedHome(i, r)
                  /\ collected[k].pos = i
                  /\ collected[k].operations = Some(contents[i + 1].operations)
             /\ disk[ExpectedHome(i, r)] # Absent
             /\ \E m \in 1..Len(Get(report).metrics) :
                  In(Get(disk[ExpectedHome(i, r)]), Get(report).metrics[m].values)
        /\ report # None

\* C4 (as claimed): with reuse unset no two launches of one execution use the
\* same working directory, and the entry at batch position i runs in the
\* directories suffixed _i_r.
C4_DistinctDirectories ==
  /\ \A a, b \in 1..Len(launched) : a # b => launched[a].home # launched[b].home
  /\ \A k \in 1..Len(launched) :
       launched[k].home = ExpectedHome(launched[k].pos, launched[k].test_run)

\* Some name occurs in two different batch entries.
SharedAcrossEntries(contents) ==
  \E i, j \in 1..Len(contents) :
    /\ i < j
    /\ \E a \in 1..Len(contents[i].operations), b \in 1..Len(contents[j].operations) :
         contents[i].operations[a] = contents[j].operations[b]
EntriesWellFormed(contents) ==
  \A i \in 1..Len(contents) :
    ~HasRepeat(contents[i].operations) /\ ~HasUnknown(contents[i].operations)

\* C5 (as claimed): in batch mode a known operation name shared by two
\* entries, each entry's own list being duplicate-free, is accepted by
\* validation and the orchestration proceeds.
C5_SharedNameAccepted ==
  (PastValidation /\ BatchMode
     /\ EntriesWellFormed(Get(batch_file_contents))
     /\ SharedAcrossEntries(Get(batch_file_contents)))
    => (validated /\ ~RejectedByValidation)

\* C5 (amended): in batch mode an operation name shared by two entries is a
\* validation failure: validate_operations rejects the batch with the
\* duplicates error naming the flattened list of all entries' operations, and
\* no entry is run.
C5_SharedNameRejected ==
  (PastValidation /\ BatchMode /\ SharedAcrossEntries(Get(batch_file_contents)))
    => /\ error = Some([kind |-> "duplicates", detail |-> <<Requested>>])
       /\ pc = "exit"
       /\ ~validated
       /\ Len(launched) = 0
       /\ Len(collected) = 0
       /\ report = None

C5_Witness ==
  /\ PastValidation
  /\ BatchMode
  /\ EntriesWellFormed(Get(batch_file_contents))
  /\ SharedAcrossEntries(Get(batch_file_contents))
  /\ ErrorKind = "duplicates"

\* State part of C6: the verdict on the parsed list.
C6_State ==
  (PastValidation /\ ~BatchMode) =>
    /\ HasRepeat(Requested)
         => (error = Some([kind |-> "duplicates", detail |-> <<Requested>>])
             /\ ~validated /\ pc = "exit")
    /\ (~HasRepeat(Requested) /\ ~HasUnknown(Requested))
         => (validated /\ ~RejectedByValidation)
\* Step part of C6: validating leaves the inputs as they were.
C6_Step ==
  (pc = "validate_operations" /\ ~BatchMode)
    => (operations' = operations /\ arguments' = arguments /\ args' = args
        /\ batch_file_contents' = batch_file_contents)

\* C6: in non-batch mode validate_operations rejects every operations list
\* with a repeated name and accepts every duplicate-free list of registry
\* labels, the omitted and the empty list included; validating changes neither
\* the list nor the configuration.
C6_NonBatchValidation == [](C6_State) /\ [][C6_Step]_vars

C6_Witness ==
  /\ ~BatchMode
  /\ operations = Some(<<"read", "load", "read">>)
  /\ ErrorKind = "duplicates"
  /\ pc = "exit"

\* C7: validate_operations rejects every flattened operations list holding a
\* name that is not exactly a registry label; when the list is duplicate-free
\* the error names the first such name in list order and lists all registry
\* labels in sorted order.
C7_UnknownOperation ==
  (PastValidation /\ HasUnknown(Requested)) =>
    /\ RejectedByValidation
    /\ ~validated
    /\ pc = "exit"
    /\ ~HasRepeat(Requested)
         => error = Some([kind |-> "unknown",
                          detail |-> <<FirstUnknown(Requested),
                                       <<"insert", "load", "read">> >>])

C7_Witness ==
  /\ PastValidation
  /\ Requested = <<"read", "bogus", "Read">>
  /\ ErrorKind = "unknown"
  /\ Get(error).detail[1] = "bogus"

\* C8 (as claimed): whenever a batch file is supplied together with a direct
\* arguments or operations value, the program ends in an error before the
\* batch file is read, before validation and before any launch, and no report
\* is written.
C8_BatchExcludesDirect ==
  (args.batch_file # None /\ (args.arguments # None \/ args.operations # None)) =>
    /\ pc \in {"parse_args", "exit"}
    /\ pc = "exit" => ErrorKind = "config"
    /\ ~batch_read
    /\ ~validated
    /\ Len(launched) = 0
    /\ report = None

NonEmpty(o) == o # None /\ o # Some("")

\* C8 (amended): whenever a non-empty batch file path is supplied together
\* with a non-empty direct arguments value or a non-empty direct operations
\* value, the program ends in an error before the batch file is read, before
\* validation and before any launch, and no report is written.
C8_BatchExcludesNonEmptyDirect ==
  (NonEmpty(args.batch_file) /\ (NonEmpty(args.arguments) \/ NonEmpty(args.operations))) =>
    /\ pc \in {"parse_args", "exit"}
    /\ pc = "exit" => ErrorKind = "config"
    /\ ~batch_read
    /\ ~validated
    /\ Len(launched) = 0
    /\ Len(collected) = 0
    /\ report = None

C8_Witness ==
  /\ pc = "exit"
  /\ args.batch_file = Some("batch.json")
  /\ args.arguments = None
  /\ args.operations = Some("<json>")
  /\ error = Some([kind |-> "config",
                   detail |-> <<"A batch file (-bf) should not be defined at the same time as -ops or -args">>])

\* C9: with reuse set no child process is ever launched, in batch mode and in
\* non-batch mode, for every runmax and every batch list.
C9_ReuseLaunchesNothing ==
  args.reuse =>
    /\ Len(launched) = 0
    /\ Len(exits) = 0
    /\ running = None
    /\ pc \notin {"run_test_wrapper", "subprocess_run"}

C9_Witness ==
  /\ args.reuse
  /\ exec_no = 1
  /\ pc = "done"
  /\ BatchMode
  /\ Len(Get(batch_file_contents)) = 2
  /\ args.runmax = 2
  /\ Len(collected) = 4

\* C10 (as claimed): an execution with reuse unset in which every child exits
\* 0, followed by an execution with reuse set on the same configuration and
\* the artifacts left by the first: the second launches nothing, makes the
\* same collector calls in the same order, completes, and reports a statistic
\* list identical to the first's.
C10_ReuseIdempotent ==
  exec_no = 2 =>
    /\ Len(launched) = 0
    /\ pc # "exit"
    /\ pc = "done" =>
         /\ collected = Get(first).collected
         /\ Get(report).metrics = Get(Get(first).report).metrics

\* The entries an execution is asked to process: the batch list's positions,
\* or position 0 alone without a batch file.
EntryCount == IF BatchMode THEN Len(Get(batch_file_contents)) ELSE 1
EntryPositions == 0..(EntryCount - 1)
RunIndexes == 0..(args.runmax - 1)
Homes(log) == [k \in 1..Len(log) |-> log[k].home]

\* C11 (as claimed): with reuse set and the artifacts of some (entry, run)
\* directory missing, the execution ends in an error and produces no report,
\* in batch mode and without a batch file, for every accepted configuration.
C11_ReuseMissingArtifactsFails ==
  (exec_no = 1 /\ args.reuse /\ PastValidation /\ validated
     /\ \E i \in EntryPositions, r \in RunIndexes : disk[ExpectedHome(i, r)] = Absent)
    => (report = None /\ pc # "done")

\* C12: without a batch file, runmax = n >= 1, reuse unset and every child
\* exiting 0: the n children are launched in {home}_0_0 .. {home}_0_(n-1) in
\* ascending run order; exactly those directories are collected, once each,
\* in the same order and into one collection whose records hold the runs'
\* values in run order; one report is produced, after the last collection.
C12_SingleConfigurationRuns ==
  (exec_no = 1 /\ ~BatchMode /\ ~args.reuse /\ args.runmax >= 1) =>
    /\ \A k \in 1..Len(launched) : launched[k].home = ExpectedHome(0, k - 1)
    /\ \A k \in 1..Len(collected) :
         /\ collected[k].home = ExpectedHome(0, k - 1)
         /\ collected[k].operations = operations
         /\ Len(launched) = args.runmax
         /\ Len(exits) = args.runmax
    /\ Len(launched) <= args.runmax
    /\ Len(collected) <= args.runmax
    /\ report # None <=> pc = "done"
    /\ pc = "done" =>
         /\ Len(launched) = args.runmax
         /\ Len(collected) = args.runmax
         /\ \A k \in 1..Len(exits) : exits[k].code = 0
         /\ Len(Get(report).metrics) > 0
         /\ \A m \in 1..Len(Get(report).metrics) :
              Get(report).metrics[m].values =
                [r \in 1..args.runmax |-> Get(disk[ExpectedHome(0, r - 1)])]
         /\ \A a, b \in 1..args.runmax :
              a # b => disk[ExpectedHome(0, a - 1)] # disk[ExpectedHome(0, b - 1)]

C12_Witness ==
  /\ exec_no = 1
  /\ ~BatchMode
  /\ ~args.reuse
  /\ args.runmax = 2
  /\ pc = "done"
  /\ operations = Some(<<"load">>)
  /\ Get(report).metrics = <<[label |-> "load", values |-> <<Measurement(1), Measurement(2)>>]>>

\* C13: execution is strictly sequential.  At most one child process is
\* running at any time, main() waits in subprocess.run exactly while it runs,
\* and a child is launched only when every earlier child has exited.
C13_StrictlySequential ==
  /\ Len(launched) - Len(exits) \in {0, 1}
  /\ running # None <=> Len(launched) = Len(exits) + 1
  /\ running # None <=> pc = "subprocess_run"
  /\ running # None => Get(running) = launched[Len(launched)].home
  /\ \A k \in 1..Len(exits) : exits[k].home = launched[k].home

C13_Witness ==
  /\ running # None
  /\ Len(launched) = 4
  /\ Len(exits) = 3
  /\ BatchMode

\* The labels an entry's collection reports.
EntryLabels(ops) == IF Len(ops) > 0 THEN ops ELSE <<"read", "load", "insert">>
Distinct(contents) ==
  \A i, j \in 1..Len(contents) : i # j => contents[i] # contents[j]

\* C14: batch entries are processed in ascending batch position: launches and
\* collector calls are ordered by position, all of an entry's launches and
\* collections come before the next entry's launches, and the reported list
\* is the concatenation, in position order, of the results of the entries
\* processed.
C14_BatchOrderPreserved ==
  BatchMode =>
    /\ \A a, b \in 1..Len(launched) : a < b => launched[a].pos <= launched[b].pos
    /\ \A a, b \in 1..Len(collected) : a < b => collected[a].pos <= collected[b].pos
    /\ \A a \in 1..Len(launched) : \A c \in 1..Len(collected) :
         collected[c].pos < launched[a].pos =>
           Cardinality({k \in 1..Len(collected) : collected[k].pos = collected[c].pos})
             = args.runmax
    /\ (pc = "done" /\ args.verbose) =>
         LET contents == Get(batch_file_contents)
             metrics == Get(report).metrics
         IN  /\ [m \in 1..Len(metrics) |-> metrics[m].label]
                  = Flatten([i \in 1..Len(contents) |-> EntryLabels(contents[i].operations)])
             /\ (exec_no = 1 /\ Distinct(contents) /\ Len(contents) = 2) =>
                  /\ metrics[1].values =
                       [r \in 1..args.runmax |-> Get(disk[ExpectedHome(0, r - 1)])]
                  /\ metrics[Len(metrics)].values =
                       [r \in 1..args.runmax |-> Get(disk[ExpectedHome(1, r - 1)])]

C14_Witness ==
  /\ BatchMode
  /\ exec_no = 1
  /\ ~args.reuse
  /\ pc = "done"
  /\ args.runmax = 2
  /\ Len(launched) = 4
  /\ Get(batch_file_contents) =
       <<[arguments |-> <<>>, operations |-> <<"load">>],
         [arguments |-> <<>>, operations |-> <<"read">>]>>
  /\ Get(report).metrics =
       <<[label |-> "load", values |-> <<Measurement(1), Measurement(2)>>],
         [label |-> "read", values |-> <<Measurement(3), Measurement(4)>>]>>

\* C18 (as claimed): within one entry with reuse unset, the collector is
\* called on run r's directory after run r's child exits and before the child
\* of run r+1 is launched.
C18_CollectedBetweenRuns ==
  ~args.reuse =>
    \A k \in 1..Len(launched) :
      launched[k].test_run > 0 =>
        \E c \in 1..Len(collected) :
          /\ collected[c].pos = launched[k].pos
          /\ collected[c].test_run = launched[k].test_run - 1

LaunchesOf(p) == {k \in 1..Len(launched) : launched[k].pos = p}
CollectionsOf(p) == {k \in 1..Len(collected) : collected[k].pos = p}

\* C18 (amended): within one entry with reuse unset, execution and collection
\* are two phases: all runmax children of the entry are launched and have
\* exited 0 before the collector is called on any of the entry's directories;
\* the directories are then collected in ascending run order, all of them
\* before a child of the next entry is launched.
C18_CollectedAfterAllRuns ==
  ~args.reuse =>
    /\ \A c \in 1..Len(collected) :
         /\ Cardinality(LaunchesOf(collected[c].pos)) = args.runmax
         /\ \A k \in LaunchesOf(collected[c].pos) : k <= Len(exits) /\ exits[k].code = 0
         /\ collected[c].test_run = Cardinality({d \in CollectionsOf(collected[c].pos) : d < c})
    /\ \A k \in 1..Len(launched) : \A c \in 1..Len(collected) :
         collected[c].pos < launched[k].pos =>
           Cardinality(CollectionsOf(collected[c].pos)) = args.runmax
    /\ \A k \in 1..Len(launched) :
         Cardinality(CollectionsOf(launched[k].pos)) > 0 =>
           Cardinality(LaunchesOf(launched[k].pos)) = args.runmax

C18_Witness ==
  /\ ~args.reuse
  /\ args.runmax = 2
  /\ Len(launched) = 2
  /\ Len(exits) = 2
  /\ Len(collected) = 1
  /\ pc = "process_results"

\* C19: with reuse unset the collector is called on a directory only after a
\* child launched by this execution in that directory has exited 0, and once
\* a child has exited non-zero nothing is collected any more.
C19_State ==
  ~args.reuse =>
    \A c \in 1..Len(collected) :
      \E k \in 1..Len(exits) : exits[k].home = collected[c].home /\ exits[k].code = 0
C19_Step ==
  (\E k \in 1..Len(exits) : exits[k].code # 0) => collected' = collected
C19_CollectOnlyAfterSuccess == [](C19_State) /\ [][C19_Step]_vars

C19_Witness ==
  /\ ~args.reuse
  /\ BatchMode
  /\ Len(collected) = 3
  /\ collected[3].home = ExpectedHome(0, 0)
  /\ collected[3].pos = 1

\* main() is a running sequential program and, by the claim's hypothesis,
\* every launched child eventually exits: some step is always taken while
\* one is possible.
LiveSpec == Spec /\ WF_vars(Next)

Final == pc \in {"done", "exit"}
\* C15: when every launched child eventually exits the execution terminates,
\* in a final state that is either "one report produced" or "ended with an
\* error"; nothing is retried: an entry has at most runmax launches, each in a
\* run index of its own.
C15_Safety ==
  /\ pc = "done" => (report # None /\ error = None)
  /\ pc = "exit" => (report = None /\ error # None /\ running = None)
  /\ report # None => pc = "done"
  /\ \A p \in 0..MaxBatch : Cardinality(LaunchesOf(p)) <= args.runmax
  /\ \A a, b \in 1..Len(launched) :
       (a # b /\ launched[a].pos = launched[b].pos)
         => launched[a].test_run # launched[b].test_run
C15_Terminates == [](C15_Safety) /\ []<>Final

C15_Witness ==
  /\ pc = "done"
  /\ exec_no = 1
  /\ BatchMode
  /\ Len(launched) = 4
  /\ args.runmax = 2

\* ================================================== RunContext builder alone
\* The two pure functions of the RunContext builder, called on inputs drawn
\* from bounded sets.  main() is idle in these behaviours.
IdleArgs ==
  [wtperf |-> None, test |-> None, home |-> None, batch_file |-> None,
   arguments |-> None, operations |-> None, outfile |-> None,
   verbose |-> FALSE, reuse |-> FALSE, runmax |-> 0]

Idle ==
  /\ args = IdleArgs
  /\ pc = "idle"
  /\ exec_no = 1
  /\ arguments = None
  /\ operations = None
  /\ batch_file_contents = None
  /\ batch_read = FALSE
  /\ validated = FALSE
  /\ pos = 0
  /\ index = 0
  /\ test_run = 0
  /\ perf_stats = NoStats
  /\ reported_stats = <<>>
  /\ running = None
  /\ spawned = 0
  /\ launched = <<>>
  /\ exits = <<>>
  /\ collected = <<>>
  /\ disk = [d \in Dirs |-> Absent]
  /\ error = None
  /\ report = None
  /\ first = None

mainvars ==
  <<args, pc, exec_no, arguments, operations, batch_file_contents, batch_read,
    validated, pos, index, test_run, perf_stats, reported_stats, running,
    spawned, launched, exits, collected, disk, error, report, first>>

IndexPairs == (0..MaxIndex) \X (0..MaxIndex)     \* <<index, test_run>>
\* Two calls of create_test_home_path with the same home.
PathCalls ==
  [fn : {"create_test_home_path"}, home : {"h", "h_1"}, a : IndexPairs, b : IndexPairs]

Tokens == {"-C", "-h"}
\* One call of construct_wtperf_command_line.
CmdCalls ==
  [fn : {"construct_wtperf_command_line"},
   wtperf : {"wtperf"},
   env : {None, Some("LD_PRELOAD=x")},
   test : {None, Some("t.wtperf")},
   home : {None, Some("h_0_0")},
   arguments : {None} \cup {Some(l) : l \in SeqsUpTo(Tokens, MaxArgs)}]

FnInit ==
  /\ Idle
  /\ call \in PathCalls \cup CmdCalls
  /\ result = None
  /\ suite_in = NoSuite
  /\ suite = NoSuite
  /\ suite_pc = "idle"

call_create_test_home_path ==
  /\ call.fn = "create_test_home_path"
  /\ result = None
  /\ result' = Some(<<create_test_home_path(call.home, call.a[2], call.a[1]),
                      create_test_home_path(call.home, call.b[2], call.b[1])>>)
  /\ UNCHANGED <<mainvars, call, suite_in, suite, suite_pc>>

call_construct_wtperf_command_line ==
  /\ call.fn = "construct_wtperf_command_line"
  /\ result = None
  /\ result' = Some(construct_wtperf_command_line(call.wtperf, call.env, call.test,
                                                  call.home, call.arguments))
  /\ UNCHANGED <<mainvars, call, suite_in, suite, suite_pc>>

FnNext ==
  \/ call_create_test_home_path
  \/ call_construct_wtperf_command_line

FnSpec == FnInit /\ [][FnNext]_vars

\* C16: for a fixed home, create_test_home_path is injective over pairs of
\* non-negative (batch index, run index): equal paths come from equal pairs;
\* and the path is home, batch index, run index in that order, joined by "_".
C16_HomePathInjective ==
  (call.fn = "create_test_home_path" /\ result # None) =>
    LET p == Get(result)
    IN  /\ p[1] = p[2] <=> call.a = call.b
        /\ (call.home = "h" /\ call.a = <<10, 2>>) => p[1] = "h_10_2"
        /\ (call.home = "h_1" /\ call.a = <<0, 11>>) => p[1] = "h_1_0_11"
        /\ p[2] = call.home \o "_" \o ToString(call.b[1]) \o "_" \o ToString(call.b[2])

C16_Witness ==
  /\ call.fn = "create_test_home_path"
  /\ call.a = <<1, 11>>
  /\ call.b = <<11, 1>>
  /\ result = Some(<<"h_1_1_11", "h_1_11_1">>)

\* C17: construct_wtperf_command_line returns exactly
\* [env]? ++ [executable] ++ ['-O', overrideFile]? ++ extraArgs ++ ['-h', homePath]?,
\* each optional part present iff its input is not None, the extra arguments
\* verbatim and in order, and nothing else.
C17_CommandLine ==
  (call.fn = "construct_wtperf_command_line" /\ result # None) =>
    LET r == Get(result)
        e == IF call.env = None THEN 0 ELSE 1
        t == IF call.test = None THEN 0 ELSE 2
        n == IF call.arguments = None THEN 0 ELSE Len(Get(call.arguments))
        h == IF call.home = None THEN 0 ELSE 2
    IN  /\ Len(r) = e + 1 + t + n + h
        /\ e = 1 => r[1] = Get(call.env)
        /\ r[e + 1] = call.wtperf
        /\ t = 2 => (r[e + 2] = "-O" /\ r[e + 3] = Get(call.test))
        /\ \A k \in 1..n : r[e + 1 + t + k] = Get(call.arguments)[k]
        /\ h = 2 => (r[Len(r) - 1] = "-h" /\ r[Len(r)] = Get(call.home))

C17_Witness ==
  /\ call.fn = "construct_wtperf_command_line"
  /\ result = Some(<<"LD_PRELOAD=x", "wtperf", "-O", "t.wtperf", "-h", "-C", "-h", "h_0_0">>)

\* ================================================= antithesis_suite.py
\* A hook is a plain string naming a class, or a mapping with key 'class'.
\* A suite is its three hook lists; None stands for a list whose path is
\* missing from the YAML (KeyError) or passes through a null (TypeError).
SUITE_BLACKLIST ==
  {"CheckReplDBHash", "CheckReplOplogs", "CleanEveryN", "ContinuousStepdown"}

HookNames == {"CleanEveryN", "ValidateCollections"}
Hooks == [shape : {"str", "dict"}, class : HookNames]
HookLists == {None} \cup {Some(l) : l \in SeqsUpTo(Hooks, MaxHooks)}
Suites == [archive : HookLists, executor_archive : HookLists, executor : HookLists]

Return(v) == [raised |-> "none", value |-> v]
Raise(e) == [raised |-> e, value |-> <<>>]

\* Mutant: a list of mappings is returned unfiltered.
_sanitize_hooks_dict_unfiltered(hooks) ==
  IF Len(hooks) = 0 THEN Return(hooks)
  ELSE IF hooks[1].shape = "str"
    THEN Return(SelectSeq(hooks, LAMBDA x : ~(x.shape = "str" /\ x.class \in SUITE_BLACKLIST)))
  ELSE Return(hooks)

\* _sanitize_hooks: the branch is chosen by the type of hooks[0] alone.  In the
\* string branch `x not in SUITE_BLACKLIST` is true of every mapping; in the
\* mapping branch x['class'] of a string raises TypeError.
_sanitize_hooks(hooks) ==
  IF Len(hooks) = 0 THEN Return(hooks)
  ELSE IF hooks[1].shape = "str"
    THEN Return(SelectSeq(hooks, LAMBDA x : ~(x.shape = "str" /\ x.class \in SUITE_BLACKLIST)))
  ELSE IF hooks[1].shape = "dict"
    THEN IF \E k \in 1..Len(hooks) : hooks[k].shape = "str"
           THEN Raise("TypeError")
           ELSE Return(SelectSeq(hooks, LAMBDA x : x.class \notin SUITE_BLACKLIST))
  ELSE Raise("RuntimeError")

\* One try block of _generate: KeyError and TypeError leave the list as it is.
sanitized(v) ==
  IF v = None THEN v
  ELSE LET r == _sanitize_hooks(Get(v))
       IN  IF r.raised = "TypeError" THEN v ELSE Some(r.value)

escapes(v) == v # None /\ _sanitize_hooks(Get(v)).raised = "RuntimeError"

SuiteInit ==
  /\ Idle
  /\ call = NoCall
  /\ result = None
  /\ suite_in \in Suites
  /\ suite = suite_in
  /\ suite_pc = "archive"

generate_archive ==
  /\ suite_pc = "archive"
  /\ IF escapes(suite.archive)
       THEN suite_pc' = "raised" /\ UNCHANGED suite
       ELSE /\ suite' = [suite EXCEPT !.archive = sanitized(suite.archive)]
            /\ suite_pc' = "executor_archive"
  /\ UNCHANGED <<mainvars, call, result, suite_in>>

generate_executor_archive ==
  /\ suite_pc = "executor_archive"
  /\ IF escapes(suite.executor_archive)
       THEN suite_pc' = "raised" /\ UNCHANGED suite
       ELSE /\ suite' = [suite EXCEPT !.executor_archive = sanitized(suite.executor_archive)]
            /\ suite_pc' = "executor"
  /\ UNCHANGED <<mainvars, call, result, suite_in>>

generate_executor ==
  /\ suite_pc = "executor"
  /\ IF escapes(suite.executor)
       THEN suite_pc' = "raised" /\ UNCHANGED suite
       ELSE /\ suite' = [suite EXCEPT !.executor = sanitized(suite.executor)]
            /\ suite_pc' = "dump"
  /\ UNCHANGED <<mainvars, call, result, suite_in>>

\* yaml.dump(suite) written to antithesis_<suite_name>.yml
generate_write ==
  /\ suite_pc = "dump"
  /\ suite_pc' = "written"
  /\ UNCHANGED <<mainvars, call, result, suite_in, suite>>

SuiteNext ==
  \/ generate_archive
  \/ generate_executor_archive
  \/ generate_executor
  \/ generate_write

SuiteSpec == SuiteInit /\ [][SuiteNext]_vars

Slots == {"archive", "executor_archive", "executor"}
Blacklisted(x) == x.class \in SUITE_BLACKLIST
NoBlacklisted(l) == \A k \in 1..Len(l) : ~Blacklisted(l[k])
Others(l) == SelectSeq(l, LAMBDA x : ~Blacklisted(x))
Homogeneous(l) == \A j, k \in 1..Len(l) : l[j].shape = l[k].shape
Present == {f \in Slots : suite_in[f] # None}

\* C20 as stated: after _generate no list, mixed lists included, holds a
\* blacklisted element, and the other elements are kept in order.
C20_EveryBlacklistedRemoved ==
  suite_pc = "written" =>
    \A f \in Present :
      /\ NoBlacklisted(Get(suite[f]))
      /\ Others(Get(suite[f])) = Others(Get(suite_in[f]))

\* C20: after _generate every hook list that holds only plain strings, or
\* only mappings with key 'class', has no element naming a class in
\* SUITE_BLACKLIST; in every list, mixed ones included, all non-blacklisted
\* elements are kept in their original order; a missing list stays missing.
C20_HomogeneousListsSanitized ==
  suite_pc = "written" =>
    /\ \A f \in Present :
         /\ suite[f] # None
         /\ Homogeneous(Get(suite_in[f])) => NoBlacklisted(Get(suite[f]))
         /\ Others(Get(suite[f])) = Others(Get(suite_in[f]))
    /\ \A f \in Slots \ Present : suite[f] = None

C20_Witness ==
  /\ suite_pc = "written"
  /\ suite_in.archive =
       Some(<<[shape |-> "str", class |-> "CleanEveryN"],
              [shape |-> "str", class |-> "ValidateCollections"]>>)
  /\ suite.archive = Some(<<[shape |-> "str", class |-> "ValidateCollections"]>>)
  /\ suite_in.executor =
       Some(<<[shape |-> "dict", class |-> "ValidateCollections"],
              [shape |-> "dict", class |-> "CleanEveryN"]>>)
  /\ suite.executor = Some(<<[shape |-> "dict", class |-> "ValidateCollections"]>>)
  /\ suite_in.executor_archive = None

====
